---- MODULE Spec2Model ----
(***************************************************************************)
(* Model of the scoring functions of the secondary-structure notebooks:    *)
(* get_segments, segment_of_overlap and q3_acc.  A behaviour picks a       *)
(* reference and a prediction and makes one call.  Scores are exact        *)
(* rationals <<numerator, denominator>> in lowest terms.                   *)
(***************************************************************************)
EXTENDS Integers, Sequences, FiniteSets, TLC

\* Longest label sequence drawn as an input.
MaxLen == 5
\* Largest number of runs of identical labels in an input sequence.
MaxRuns == 3

VARIABLES ss_ref_str, ss_pred_str, pc, op, shapes,
          segment_types, val_total, N_total, result, converted,
          invocations, accumulators,
          preds, real_vectors, preds_rec, cur_idx,
          len_trainloader, train_pc, epoch, batch_i, patience_counter, best_loss,
          val_losses, iterations, net_steps, checkpoint_file, breaks

\* The names of the scoring and conversion calls.
scoring_vars == <<ss_ref_str, ss_pred_str, pc, op, shapes,
                  segment_types, val_total, N_total, result, converted,
                  invocations, accumulators>>

\* The names of reconstruct_predictions.
reconstruct_vars == <<preds, real_vectors, preds_rec, cur_idx>>

\* The names of the training loop cell: batch_i is its loop index i,
\* net_steps the number of optimizer.step() calls the parameters of net have
\* received, checkpoint_file what torch.save last wrote, breaks the number of
\* times the break statement was executed.
training_vars == <<len_trainloader, train_pc, epoch, batch_i, patience_counter,
                   best_loss, val_losses, iterations, net_steps, checkpoint_file,
                   breaks>>

vars == <<ss_ref_str, ss_pred_str, pc, op, shapes,
          segment_types, val_total, N_total, result, converted,
          invocations, accumulators, reconstruct_vars, training_vars>>

\* ss_id_dict = {'H':0, 'E':1, '-':2}
ss_id_dict == [l \in {"H", "E", "-"} |-> CASE l = "H" -> 0 [] l = "E" -> 1 [] l = "-" -> 2]

Labels == DOMAIN ss_id_dict

\* Variant: coil is written C, as in the psipred reports.
pos_ss_dict_psipred ==
    [c \in {ss_id_dict[l] : l \in Labels} |->
        IF c = 2 THEN "C" ELSE CHOOSE l \in Labels : ss_id_dict[l] = c]

\* pos_ss_dict = {j:i for i,j in ss_id_dict.items()}
pos_ss_dict ==
    [c \in {ss_id_dict[l] : l \in Labels} |-> CHOOSE l \in Labels : ss_id_dict[l] = c]

\* Iteration order of the keys of segment_types = {'E':[], 'H':[], '-':[]}
segment_keys == <<"E", "H", "-">>

Range(s) == {s[x] : x \in DOMAIN s}

Min(S) == CHOOSE x \in S : \A y \in S : x <= y

----------------------------------------------------------------------------
\* binary64 arithmetic for the true divisions and additions of the code.

\* A non-negative float x is held exactly, as its digits in base 2^20, most
\* significant first: the first digit is the integer part, the k-th digit
\* counts 2^(-20 (k - 1)), and no digit after the first is a last zero.
\* Every non-negative binary64 value below 2^31 has one such form.
B == 2 ^ 20

float_of_int(n) == <<n>>

Zero == float_of_int(0)
One == float_of_int(1)

\* The k-th digit of X, 0 after the last one
digit(X, k) == IF k <= Len(X) THEN X[k] ELSE 0

\* X without its last zero digits
RECURSIVE strip(_)
strip(X) ==
    IF Len(X) > 1 /\ X[Len(X)] = 0 THEN strip(SubSeq(X, 1, Len(X) - 1)) ELSE X

\* Number of bits of 0 <= x < 2^20
digit_bit_length(x) ==
    IF x < 1024
    THEN IF x < 32
         THEN IF x < 4 THEN (IF x < 2 THEN x ELSE 2)
              ELSE IF x < 8 THEN 3 ELSE IF x < 16 THEN 4 ELSE 5
         ELSE IF x < 128 THEN (IF x < 64 THEN 6 ELSE 7)
              ELSE IF x < 256 THEN 8 ELSE IF x < 512 THEN 9 ELSE 10
    ELSE IF x < 32768
         THEN IF x < 4096 THEN (IF x < 2048 THEN 11 ELSE 12)
              ELSE IF x < 8192 THEN 13 ELSE IF x < 16384 THEN 14 ELSE 15
         ELSE IF x < 131072 THEN (IF x < 65536 THEN 16 ELSE 17)
              ELSE IF x < 262144 THEN 18 ELSE IF x < 524288 THEN 19 ELSE 20

\* Number of bits of 0 <= x < 2^31
bit_length(x) ==
    IF x < B THEN digit_bit_length(x) ELSE 20 + digit_bit_length(x \div B)

\* Number of bits from the first set bit of X to the end of its last digit,
\* looking from digit k on
RECURSIVE significant_bits(_, _)
significant_bits(X, k) ==
    IF k > Len(X) THEN 0
    ELSE IF X[k] # 0 THEN (Len(X) - k) * 20 + bit_length(X[k])
    ELSE significant_bits(X, k + 1)

\* The digits 1..k of the sums S, with the carry c coming into digit k
RECURSIVE carry_digits(_, _, _)
carry_digits(S, k, c) ==
    IF k = 1 THEN <<S[1] + c>>
    ELSE Append(carry_digits(S, k - 1, (S[k] + c) \div B), (S[k] + c) % B)

\* The digits of X + Y, not rounded.
raw_add(X, Y) ==
    LET n == IF Len(X) >= Len(Y) THEN Len(X) ELSE Len(Y)
    IN carry_digits([k \in 1..n |-> digit(X, k) + digit(Y, k)], n, 0)

\* Long division of X by q from digit k on, r the remainder so far and acc
\* the digits of the quotient so far.  It ends after the last digit of X
\* when no remainder is left, or when the quotient has the 53 significant
\* bits of binary64 and a bit more; it tells whether a remainder is left.
RECURSIVE long_division(_, _, _, _, _)
long_division(X, q, k, r, acc) ==
    IF k > Len(X) /\ (r = 0 \/ significant_bits(acc, 1) >= 54)
    THEN <<acc, IF r = 0 THEN 0 ELSE 1>>
    ELSE long_division(X, q, k + 1, (r * B + digit(X, k)) % q,
                       Append(acc, (r * B + digit(X, k)) \div q))

\* The digits of X / q cut after 54 significant bits or more, and whether a
\* remainder is left, 0 < q < 2^11.
div_digits(X, q) == long_division(X, q, 1, 0, <<>>)

\* The digits 1..dl of S, which is X plus half a unit, cut at the unit of
\* digit dl; on a tie the cut is made to the even multiple of the unit.
cut_to_even(S, dl, unit, tie) ==
    LET kept == S[dl] \div unit
        even == IF tie /\ kept % 2 = 1 THEN kept - 1 ELSE kept
    IN Append(SubSeq(S, 1, dl - 1), even * unit)

\* X rounded to drop its last d bits, 0 < d: half a unit is added and the
\* bits below the unit are dropped.
round_at(X, d, inexact) ==
    LET gl == Len(X) - ((d - 1) \div 20)
        half == 2 ^ ((d - 1) % 20)
        tie == /\ inexact = 0
               /\ X[gl] % (2 * half) = half
               /\ \A k \in (gl + 1)..Len(X) : X[k] = 0
    IN cut_to_even(raw_add(X, [k \in 1..gl |-> IF k = gl THEN half ELSE 0]),
                   Len(X) - (d \div 20), 2 ^ (d % 20), tie)

\* X rounded when it has d bits beyond the 53 of binary64
round_excess(X, d, inexact) ==
    IF d <= 0 THEN strip(X) ELSE strip(round_at(X, d, inexact))

\* Rounding to the 53 significant bits of binary64, ties to even; inexact
\* tells that the digits were cut from a larger value, and then X has 54
\* significant bits at least.  An exact value of two digits has 51 bits at
\* most and is kept as it is.
round_to_binary64(X, inexact) ==
    IF inexact = 0 /\ Len(X) <= 2 THEN strip(X)
    ELSE round_excess(X, significant_bits(X, 1) - 53, inexact)

\* The quotient of a division of digits, rounded
round_quotient(t) == round_to_binary64(t[1], t[2])

\* n / d for two integers, 0 <= n and 0 < d
true_divide(n, d) == round_quotient(div_digits(float_of_int(n), d))

\* x / N for a float and an integer 0 < N
float_divide(x, N) == round_quotient(div_digits(x, N))

\* x // N for a float and an integer 0 < N
float_floordiv(x, N) == float_of_int(x[1] \div N)

\* a + b for two floats; adding zero leaves the other term as it is
float_add(a, b) ==
    IF b = Zero THEN a
    ELSE IF a = Zero THEN b
    ELSE round_to_binary64(raw_add(a, b), 0)

\* a <= b for two sequences of digits, looking from digit k on
RECURSIVE digits_leq(_, _, _)
digits_leq(a, b, k) ==
    IF k > Len(a) /\ k > Len(b) THEN TRUE
    ELSE IF digit(a, k) # digit(b, k) THEN digit(a, k) < digit(b, k)
    ELSE digits_leq(a, b, k + 1)

\* a <= b for two floats
float_leq(a, b) == digits_leq(a, b, 1)

\* Outcomes of a call: a number, NaN, or a raised exception.
Value(q) == [kind |-> "value", val |-> q]
NaN == [kind |-> "nan", val |-> Zero]
Raise(e) == [kind |-> e, val |-> Zero]
NoResult == [kind |-> "none", val |-> Zero]
\* A call that returned something other than a number.
Returned == [kind |-> "returned", val |-> Zero]

----------------------------------------------------------------------------
\* get_segments

\* itertools.groupby(ss_str): the maximal runs of equal consecutive items,
\* each joined into one string.
RECURSIVE groupby(_)
groupby(ss_str) ==
    IF ss_str = <<>> THEN <<>>
    ELSE LET rest == groupby(Tail(ss_str))
         IN IF rest # <<>> /\ Head(rest)[1] = Head(ss_str)
            THEN <<(<<Head(ss_str)>> \o Head(rest))>> \o Tail(rest)
            ELSE <<(<<Head(ss_str)>>)>> \o rest

\* Variant: the stop value is included.
arange_inclusive(start, stop) == [x \in 1..(stop - start + 1) |-> start + x - 1]

\* np.arange(start, stop)
arange(start, stop) == [x \in 1..(stop - start) |-> start + x - 1]

\* Variant: the offset is assigned the run length instead of advanced by it.
next_idx_start_assigned(idx_start, i) == Len(i)

\* idx_start += len(i)
next_idx_start(idx_start, i) == idx_start + Len(i)

\* for i in ss_strs: idx_lens.append(np.arange(idx_start, idx_start+len(i)))
RECURSIVE idx_lens_loop(_, _)
idx_lens_loop(ss_strs, idx_start) ==
    IF ss_strs = <<>> THEN <<>>
    ELSE LET i == Head(ss_strs)
         IN <<arange(idx_start, idx_start + Len(i))>>
            \o idx_lens_loop(Tail(ss_strs), next_idx_start(idx_start, i))

\* for i in range(len(ss_strs)):
\*     segment_types[ss_strs[i][0]].append([ss_strs[i], idx_lens[i]])
RECURSIVE append_loop(_, _, _, _)
append_loop(types, ss_strs, idx_lens, i) ==
    IF i > Len(ss_strs) THEN types
    ELSE append_loop(
            [types EXCEPT ![ss_strs[i][1]] = Append(@, <<ss_strs[i], idx_lens[i]>>)],
            ss_strs, idx_lens, i + 1)

\* Variant: an empty sequence is taken for one empty run of coil.
get_segments_empty_run(ss_str) ==
    IF ss_str = <<>>
    THEN [k \in Labels |-> IF k = "-" THEN <<(<<(<<>>), (<<>>)>>)>> ELSE <<>>]
    ELSE append_loop([k \in Labels |-> <<>>], groupby(ss_str),
                     idx_lens_loop(groupby(ss_str), 0), 1)

\* A segment is the pair [run string, positions]; the result maps each of
\* the three labels to the list of its segments.
get_segments(ss_str) ==
    LET ss_strs == groupby(ss_str)
        idx_lens == idx_lens_loop(ss_strs, 0)
    IN append_loop([k \in Labels |-> <<>>], ss_strs, idx_lens, 1)

----------------------------------------------------------------------------
\* segment_of_overlap

\* np.intersect1d / np.union1d: the sorted distinct common / pooled values.
intersect1d(a, b) == Range(a) \cap Range(b)
union1d(a, b) == Range(a) \cup Range(b)

\* Variant: the non-overlapping extent is left out of the minimum.
delta_without_extent(maxov, minov, l_s1, l_s2) ==
    Min({minov, l_s1 \div 2, l_s2 \div 2})

\* Variant: half the predicted segment's length is left out of the minimum.
delta_without_pred_half(maxov, minov, l_s1, l_s2) ==
    Min({maxov - minov, minov, l_s1 \div 2})

\* Variant: the largest of the four terms is taken, not the smallest.
delta_largest(maxov, minov, l_s1, l_s2) ==
    LET S == {maxov - minov, minov, l_s1 \div 2, l_s2 \div 2}
    IN CHOOSE x \in S : \A y \in S : y <= x

\* delta = np.min([maxov-minov, minov, np.floor(l_s1/2), np.floor(l_s2/2)])
delta_of(maxov, minov, l_s1, l_s2) ==
    Min({maxov - minov, minov, l_s1 \div 2, l_s2 \div 2})

\* Variant: the parentheses around minov+delta are missing.
value_unparenthesised(l_s1, minov, delta, maxov) == true_divide(l_s1 * minov + delta, maxov)

\* value = l_s1*(minov+delta)/maxov
value_of(l_s1, minov, delta, maxov) == true_divide(l_s1 * (minov + delta), maxov)

\* for j in ss_pred[k]: ... subsum_k += value
RECURSIVE pred_loop(_, _, _)
pred_loop(i, pred_segments, subsum_k) ==
    IF pred_segments = <<>> THEN subsum_k
    ELSE LET j == Head(pred_segments)
             l_s1 == Len(i[2])
             l_s2 == Len(j[2])
             minov == Cardinality(intersect1d(i[2], j[2]))
             maxov == Cardinality(union1d(i[2], j[2]))
             delta == delta_of(maxov, minov, l_s1, l_s2)
         IN pred_loop(i, Tail(pred_segments),
                      IF minov > 0
                      THEN float_add(subsum_k, value_of(l_s1, minov, delta, maxov))
                      ELSE subsum_k)

\* Variant: N_k is assigned the segment length instead of advanced by it.
add_N_k_assigned(N_k, l_s1) == l_s1

\* N_k += l_s1
add_N_k(N_k, l_s1) == N_k + l_s1

\* for i in ss_ref[k]: ...   yields <<subsum_k, N_k>>
RECURSIVE ref_loop(_, _, _, _)
ref_loop(refs, pred_segments, subsum_k, N_k) ==
    IF refs = <<>> THEN <<subsum_k, N_k>>
    ELSE LET i == Head(refs)
         IN ref_loop(Tail(refs), pred_segments,
                     pred_loop(i, pred_segments, subsum_k),
                     add_N_k(N_k, Len(i[2])))

\* for k in ss_ref.keys(): ...   yields <<val_total, N_total>>
RECURSIVE key_loop(_, _, _, _, _)
key_loop(ss_ref, ss_pred, n, val, N) ==
    IF n > Len(segment_keys) THEN <<val, N>>
    ELSE LET k == segment_keys[n]
             sub == ref_loop(ss_ref[k], ss_pred[k], Zero, 0)
         IN key_loop(ss_ref, ss_pred, n + 1, float_add(val, sub[1]), N + sub[2])

\* <<val_total, N_total>> when the loops of segment_of_overlap finish.
sov_totals(ref_str, pred_str) ==
    key_loop(get_segments(ref_str), get_segments(pred_str), 1, Zero, 0)

\* Variant: floor division in place of true division.
sov_divide_floor(val, N) ==
    IF N = 0 THEN Raise("ZeroDivisionError")
    ELSE Value(float_floordiv(val, N))

\* sov = val_total/N_total; both are Python ints when N_total is 0.
sov_divide(val, N) ==
    IF N = 0 THEN Raise("ZeroDivisionError")
    ELSE Value(float_divide(val, N))

segment_of_overlap(ref_str, pred_str) ==
    LET t == sov_totals(ref_str, pred_str) IN sov_divide(t[1], t[2])

----------------------------------------------------------------------------
\* q3_acc

\* A numpy array: its shape and its items; flat (n,) or wrapped (1, n).
as_array(s, wrapped) ==
    [shape |-> IF wrapped THEN <<1, Len(s)>> ELSE <<Len(s)>>, data |-> s]

\* np.squeeze(a, 0)
squeeze0(a) == [shape |-> Tail(a.shape), data |-> a.data]

\* if a.shape[0] == 1: a = np.squeeze(a, 0)
q3_squeeze(a) == IF a.shape[1] = 1 THEN squeeze0(a) ELSE a

size_of(a) == IF a.shape = <<>> THEN 1 ELSE a.shape[1]

\* Shapes of rank 0 or 1 that numpy can broadcast together.
broadcastable(a, b) ==
    \/ a.shape = <<>>
    \/ b.shape = <<>>
    \/ size_of(a) = size_of(b)
    \/ size_of(a) = 1
    \/ size_of(b) = 1

item(a, x) == IF size_of(a) = 1 THEN a.data[1] ELSE a.data[x]

\* np.sum(real==pred) for broadcastable operands
count_equal(real, pred) ==
    LET n == IF size_of(real) = 1 THEN size_of(pred) ELSE size_of(real)
    IN Cardinality({x \in 1..n : item(real, x) = item(pred, x)})

\* np.sum(...)/real.shape[0]: real.shape[0] of a 0-d array raises
\* IndexError, and a numpy integer divided by 0 gives nan.
q3_divide(total, real) ==
    IF real.shape = <<>> THEN Raise("IndexError")
    ELSE IF real.shape[1] = 0 THEN NaN
    ELSE Value(true_divide(total, real.shape[1]))

\* The outcomes q3_acc can have.  Comparing arrays that do not broadcast
\* depends on the numpy release: it yields the scalar False (sum 0) or
\* raises ValueError.
q3_acc(real0, pred0) ==
    LET real == q3_squeeze(real0)
        pred == q3_squeeze(pred0)
    IN IF broadcastable(real, pred)
       THEN {q3_divide(count_equal(real, pred), real)}
       ELSE {q3_divide(0, real), Raise("ValueError")}

----------------------------------------------------------------------------
\* label_to_index and ints_to_symbols1d

\* Outcomes of a conversion: the items produced, or a raised exception.
Converted(t, items) == [kind |-> "value", type |-> t, items |-> items]
ConversionError(e) == [kind |-> e, type |-> "none", items |-> <<>>]
NoConversion == [kind |-> "none", type |-> "none", items |-> <<>>]

\* Variant: a default code 0 for the coil symbol.
label_to_index_default(ss, id_dict) ==
    [x \in DOMAIN ss |-> IF ss[x] = "-" THEN 0 ELSE id_dict[ss[x]]]

\* labels = np.array([id_dict[i] for i in ss])
label_to_index(ss, id_dict) == [x \in DOMAIN ss |-> id_dict[ss[x]]]

\* id_dict[i] raises KeyError for a symbol that is not a key.
label_to_index_error(ss, id_dict) ==
    IF \E x \in DOMAIN ss : ss[x] \notin DOMAIN id_dict THEN "KeyError" ELSE "none"

\* np.squeeze(a, axis), axis counted from 0
squeeze_axis(a, axis) ==
    [shape |-> [x \in 1..(Len(a.shape) - 1) |->
                   IF x <= axis THEN a.shape[x] ELSE a.shape[x + 1]],
     data |-> a.data]

squeeze_axis_error(a, axis) ==
    IF axis >= Len(a.shape) THEN "AxisError"
    ELSE IF a.shape[axis + 1] # 1 THEN "ValueError"
    ELSE "none"

\* for i,j in enumerate(ss_arr.shape): if j == 1: ss_arr = np.squeeze(ss_arr, i)
\* over the shape the array had when the loop began; yields <<error, array>>.
RECURSIVE squeeze_loop(_, _, _)
squeeze_loop(a, shape, i) ==
    IF i >= Len(shape) THEN <<"none", a>>
    ELSE IF shape[i + 1] = 1
         THEN IF squeeze_axis_error(a, i) # "none"
              THEN <<squeeze_axis_error(a, i), a>>
              ELSE squeeze_loop(squeeze_axis(a, i), shape, i + 1)
         ELSE squeeze_loop(a, shape, i + 1)

ints_to_symbols1d(ss_arr, map_dict) ==
    LET sq == IF Len(ss_arr.shape) > 1
              THEN squeeze_loop(ss_arr, ss_arr.shape, 0)
              ELSE <<"none", ss_arr>>
        arr == sq[2]
    IN IF sq[1] # "none" THEN ConversionError(sq[1])
       ELSE IF Len(arr.shape) = 0 THEN ConversionError("TypeError")
       ELSE IF Len(arr.shape) > 1
            THEN IF arr.shape[1] = 0 THEN Converted("str", <<>>)
                 ELSE ConversionError("TypeError")
       ELSE IF \E x \in DOMAIN arr.data : arr.data[x] \notin DOMAIN map_dict
            THEN ConversionError("KeyError")
            ELSE Converted("str", [x \in DOMAIN arr.data |-> map_dict[arr.data[x]]])

\* test_reals = label_to_index(ss, ss_id_dict); ints_to_symbols1d(test_reals)
symbols_roundtrip(ss) ==
    IF label_to_index_error(ss, ss_id_dict) # "none"
    THEN <<ConversionError(label_to_index_error(ss, ss_id_dict)), NoConversion>>
    ELSE LET codes == label_to_index(ss, ss_id_dict)
         IN <<Converted("int", codes),
              ints_to_symbols1d(as_array(codes, FALSE), pos_ss_dict)>>

\* label_to_index(ints_to_symbols1d(ss_arr), ss_id_dict)
codes_roundtrip(ss_arr) ==
    LET syms == ints_to_symbols1d(ss_arr, pos_ss_dict)
    IN <<syms,
         IF syms.kind # "value" THEN NoConversion
         ELSE IF label_to_index_error(syms.items, ss_id_dict) # "none"
              THEN ConversionError(label_to_index_error(syms.items, ss_id_dict))
              ELSE Converted("int", label_to_index(syms.items, ss_id_dict))>>

----------------------------------------------------------------------------
\* Inputs and calls

InputSeqs ==
    {s \in UNION {[1..n -> Labels] : n \in 0..MaxLen} : Len(groupby(s)) <= MaxRuns}

NoSegments == [k \in Labels |-> <<>>]

\* An argument as the callee sees it: items that are strings or integers.
str_arg(s) == [type |-> "str", items |-> s]
int_arg(s) == [type |-> "int", items |-> s]

\* "".join(grp) raises TypeError when the items of a group are not strings.
join_raises(arg) == arg.type # "str" /\ arg.items # <<>>

\* Variant: a key that is missing from the dict is accepted.
key_known_always(types, key) == TRUE

\* segment_types[ss_strs[i][0]] raises KeyError for a key not in the dict.
key_known(types, key) == key \in DOMAIN types

\* The exception get_segments raises on an argument, "none" if it returns.
get_segments_error(arg) ==
    IF join_raises(arg) THEN "TypeError"
    ELSE IF \E x \in DOMAIN arg.items : ~key_known(NoSegments, arg.items[x])
         THEN "KeyError"
         ELSE "none"

\* ss_ref = get_segments(ss_ref_str); ss_pred = get_segments(ss_pred_str)
sov_error(ref_arg, pred_arg) ==
    IF get_segments_error(ref_arg) # "none" THEN get_segments_error(ref_arg)
    ELSE get_segments_error(pred_arg)

\* The scoring invocations that run side by side.
Invocations == {1, 2}

\* An invocation: where it stands, the key it is about to visit, its outcome.
NotStarted == [pc |-> "start", n |-> 1, result |-> NoResult]

\* The state before any call.
\* reconstruct_predictions has no arguments yet.
NothingReconstructed ==
    /\ preds = <<>>
    /\ real_vectors = <<>>
    /\ preds_rec = <<>>
    /\ cur_idx = 0

\* No scoring, conversion or reconstruction call has been made.
NothingScored ==
    /\ pc = "ready"
    /\ op = "none"
    /\ shapes = <<FALSE, FALSE>>
    /\ segment_types = NoSegments
    /\ val_total = Zero
    /\ N_total = 0
    /\ result = NoResult
    /\ converted = <<NoConversion, NoConversion>>
    /\ invocations = [t \in Invocations |-> NotStarted]
    /\ accumulators = [a \in Invocations |-> <<Zero, 0>>]
    /\ NothingReconstructed

\* patience_val = 5
patience_val == 5

\* prints_per_epoch = 3
prints_per_epoch == 3

\* for epoch in range(10)
epochs == 10

\* best_loss = None; a loss v is held as <<v>>
None == <<>>

\* train_losses = [] ... patience_counter = patience_val, before the loop
NothingTrained ==
    /\ train_pc = "start"
    /\ epoch = 0
    /\ batch_i = 0
    /\ patience_counter = patience_val
    /\ best_loss = None
    /\ val_losses = <<>>
    /\ iterations = <<>>
    /\ net_steps = 0
    /\ checkpoint_file = None
    /\ breaks = 0

NothingCalled ==
    /\ NothingScored
    /\ NothingTrained
    /\ len_trainloader = 0

Init ==
    /\ ss_ref_str \in InputSeqs
    /\ ss_pred_str \in InputSeqs
    /\ NothingCalled

\* get_segments(ss_ref_str)
CallGetSegments ==
    /\ pc = "ready"
    /\ pc' = "done"
    /\ op' = "get_segments"
    /\ LET e == get_segments_error(str_arg(ss_ref_str))
       IN IF e # "none"
          THEN /\ result' = Raise(e)
               /\ segment_types' = NoSegments
          ELSE /\ result' = Returned
               /\ segment_types' = get_segments(ss_ref_str)
    /\ UNCHANGED <<ss_ref_str, ss_pred_str, shapes, val_total, N_total, converted,
                 invocations, accumulators, reconstruct_vars, training_vars>>

\* Variant: the accumulator is not set to 0 when a call begins.
initial_val_total_kept(previous) == previous

\* val_total = 0
initial_val_total(previous) == Zero

\* N_total = 0
initial_N_total(previous) == 0

\* One call of segment_of_overlap on two arguments, in a state whose
\* accumulators hold val and N; yields <<val_total, N_total, outcome>>.
sov_call(ref_arg, pred_arg, val, N) ==
    LET e == sov_error(ref_arg, pred_arg)
        t == key_loop(get_segments(ref_arg.items), get_segments(pred_arg.items), 1,
                      initial_val_total(val), initial_N_total(N))
    IN IF e # "none" THEN <<Zero, 0, Raise(e)>>
       ELSE <<t[1], t[2], sov_divide(t[1], t[2])>>

\* segment_of_overlap(ss_ref_str, ss_pred_str)
CallSegmentOfOverlap ==
    /\ pc = "ready"
    /\ pc' = "done"
    /\ op' = "segment_of_overlap"
    /\ \E c \in {sov_call(str_arg(ss_ref_str), str_arg(ss_pred_str), val_total, N_total)} :
          /\ val_total' = c[1]
          /\ N_total' = c[2]
          /\ result' = c[3]
    /\ UNCHANGED <<ss_ref_str, ss_pred_str, shapes, segment_types, converted,
                 invocations, accumulators, reconstruct_vars, training_vars>>

\* segment_of_overlap on the integer codes of the two sequences, passed as
\* they are or converted to symbols with ints_to_symbols1d first.
CallSegmentOfOverlapCodes ==
    /\ pc = "ready"
    /\ pc' = "done"
    /\ \E through \in BOOLEAN :
          LET e == IF label_to_index_error(ss_ref_str, ss_id_dict) # "none"
                   THEN label_to_index_error(ss_ref_str, ss_id_dict)
                   ELSE label_to_index_error(ss_pred_str, ss_id_dict)
              ref_codes == label_to_index(ss_ref_str, ss_id_dict)
              pred_codes == label_to_index(ss_pred_str, ss_id_dict)
              ref_sym == ints_to_symbols1d(as_array(ref_codes, FALSE), pos_ss_dict)
              pred_sym == ints_to_symbols1d(as_array(pred_codes, FALSE), pos_ss_dict)
              call == IF e # "none" THEN <<Zero, 0, Raise(e)>>
                      ELSE IF ~through
                           THEN sov_call(int_arg(ref_codes), int_arg(pred_codes),
                                         val_total, N_total)
                      ELSE IF ref_sym.kind # "value" THEN <<Zero, 0, Raise(ref_sym.kind)>>
                      ELSE IF pred_sym.kind # "value" THEN <<Zero, 0, Raise(pred_sym.kind)>>
                      ELSE sov_call(str_arg(ref_sym.items), str_arg(pred_sym.items),
                                    val_total, N_total)
          IN /\ op' = IF through THEN "segment_of_overlap_converted"
                      ELSE "segment_of_overlap_codes"
             /\ \E c \in {call} :
                   /\ val_total' = c[1]
                   /\ N_total' = c[2]
                   /\ result' = c[3]
    /\ UNCHANGED <<ss_ref_str, ss_pred_str, shapes, segment_types, converted,
                 invocations, accumulators, reconstruct_vars, training_vars>>

\* q3_acc(real, pred), each argument flat or wrapped in an outer axis of 1
CallQ3Acc ==
    /\ pc = "ready"
    /\ \E rw \in BOOLEAN, pw \in BOOLEAN :
          /\ shapes' = <<rw, pw>>
          /\ result' \in q3_acc(as_array(ss_ref_str, rw), as_array(ss_pred_str, pw))
    /\ pc' = "done"
    /\ op' = "q3_acc"
    /\ UNCHANGED <<ss_ref_str, ss_pred_str, segment_types, val_total, N_total, converted,
                 invocations, accumulators, reconstruct_vars, training_vars>>

\* An arbitrary sequence of integer codes, enumerated from the prediction.
codes_input(s) ==
    [x \in DOMAIN s |-> CASE s[x] = "H" -> 2 [] s[x] = "E" -> 0 [] s[x] = "-" -> 1
                          [] OTHER -> 3]

\* Symbols to codes and back, or codes (flat or wrapped) to symbols and back.
CallRoundTrip ==
    /\ pc = "ready"
    /\ pc' = "done"
    /\ \/ /\ op' = "symbols_roundtrip"
          /\ shapes' = <<FALSE, FALSE>>
          /\ converted' = symbols_roundtrip(ss_ref_str)
       \/ /\ op' = "codes_roundtrip"
          /\ \E w \in BOOLEAN :
                /\ shapes' = <<FALSE, w>>
                /\ converted' = codes_roundtrip(as_array(codes_input(ss_pred_str), w))
    /\ UNCHANGED <<ss_ref_str, ss_pred_str, segment_types, val_total, N_total, result,
                 invocations, accumulators, reconstruct_vars, training_vars>>

Next ==
    \/ CallGetSegments
    \/ CallSegmentOfOverlap
    \/ CallQ3Acc

Spec == Init /\ [][Next]_vars

\* Longest input sequence of the conversions between symbols and codes.
MaxConversionLen == 4

ConversionInputSeqs == UNION {[1..n -> Labels] : n \in 0..MaxConversionLen}

InitConversions ==
    /\ ss_ref_str \in ConversionInputSeqs
    /\ ss_pred_str \in ConversionInputSeqs
    /\ NothingCalled

NextConversions ==
    \/ CallSegmentOfOverlapCodes
    \/ CallRoundTrip

SpecConversions == InitConversions /\ [][NextConversions]_vars

\* Longest input sequence that may carry a label outside the three classes.
MaxUnknownLen == 3

\* Sequences in which a label that is none of H, E, - may occur.
UnknownInputSeqs == UNION {[1..n -> Labels \cup {"X"}] : n \in 0..MaxUnknownLen}

InitUnknown ==
    /\ ss_ref_str \in UnknownInputSeqs
    /\ ss_pred_str \in UnknownInputSeqs
    /\ NothingCalled

SpecUnknown == InitUnknown /\ [][Next \/ NextConversions]_vars

----------------------------------------------------------------------------
\* Test-set evaluation cells

\* Longest label sequence of the protein in the test set.
MaxEvalLen == 4

EvalInputSeqs == UNION {[1..n -> Labels] : n \in 0..MaxEvalLen}

\* ss_ref_str is the DSSP label sequence of the test protein, ss_pred_str
\* the labels the network (or psipred) gives it.
InitEvaluation ==
    /\ ss_ref_str \in EvalInputSeqs
    /\ ss_pred_str \in EvalInputSeqs
    /\ NothingCalled

\* test_reals / test_preds_rec: the integer codes of the labels
test_codes(ss) == as_array(label_to_index(ss, ss_id_dict), FALSE)

\* test_preds_str_cnn = [ints_to_symbols1d(i) for i in test_preds_rec]
\* test_reals_str = [ints_to_symbols1d(i) for i in test_reals]
\* test_sovs_cnn = [segment_of_overlap(i, j)
\*                  for i,j in zip(test_preds_str_cnn, test_reals_str)]
\* for a test set of one protein.
CallTestSovs ==
    /\ pc = "ready"
    /\ pc' = "done"
    /\ op' = "test_sovs"
    /\ LET test_preds_str == ints_to_symbols1d(test_codes(ss_pred_str), pos_ss_dict)
           test_reals_str == ints_to_symbols1d(test_codes(ss_ref_str), pos_ss_dict)
           call == sov_call(str_arg(test_preds_str.items), str_arg(test_reals_str.items),
                            val_total, N_total)
       IN /\ converted' = <<test_preds_str, test_reals_str>>
          /\ \E c \in {call} :
                /\ val_total' = c[1]
                /\ N_total' = c[2]
                /\ result' = c[3]
    /\ UNCHANGED <<ss_ref_str, ss_pred_str, shapes, segment_types,
                   invocations, accumulators, reconstruct_vars, training_vars>>

NextEvaluation == CallTestSovs

SpecEvaluation == InitEvaluation /\ [][NextEvaluation]_vars

----------------------------------------------------------------------------
\* reconstruct_predictions

\* Longest flat prediction array, and most real vectors in the list.
MaxPredsLen == 4
MaxVectors == 3

\* preds[start:stop] for 0 <= start <= stop: the items at the 0-based
\* indices start .. stop-1 that exist.
slice(arr, start, stop) ==
    LET hi == IF stop < Len(arr) THEN stop ELSE Len(arr)
    IN IF start >= hi THEN <<>>
       ELSE [x \in 1..(hi - start) |-> arr[start + x]]

\* Variant: the offset is assigned the vector's length instead of advanced by it.
next_cur_idx_assigned(cur, i) == Len(i)

\* cur_idx += len(i)
next_cur_idx(cur, i) == cur + Len(i)

\* for i in real_vectors: assembled = preds[cur_idx:cur_idx+len(i)];
\*     preds_rec.append(assembled); cur_idx += len(i)
\* yields <<preds_rec, cur_idx>>
RECURSIVE reconstruct_loop(_, _, _, _)
reconstruct_loop(arr, vectors, rec, cur) ==
    IF vectors = <<>> THEN <<rec, cur>>
    ELSE LET i == Head(vectors)
             assembled == slice(arr, cur, cur + Len(i))
         IN reconstruct_loop(arr, Tail(vectors), Append(rec, assembled),
                             next_cur_idx(cur, i))

\* preds_rec = []; cur_idx = 0; the loop; return preds_rec
reconstruct_predictions(arr, vectors) == reconstruct_loop(arr, vectors, <<>>, 0)

\* A real vector of n residues (only its length is read).
real_vector(n) == [x \in 1..n |-> 0]

PredsInputs == UNION {[1..n -> {0, 1, 2}] : n \in 0..MaxPredsLen}

RealVectorInputs ==
    UNION {[1..n -> {real_vector(l) : l \in 0..MaxPredsLen}] : n \in 0..MaxVectors}

InitReconstruct ==
    /\ ss_ref_str = <<>>
    /\ ss_pred_str = <<>>
    /\ NothingCalled

\* reconstruct_predictions(preds, real_vectors) on a flat array and a list
\* of vectors.
CallReconstructPredictions ==
    /\ pc = "ready"
    /\ pc' = "done"
    /\ op' = "reconstruct_predictions"
    /\ preds' \in PredsInputs
    /\ real_vectors' \in RealVectorInputs
    /\ preds_rec' = reconstruct_predictions(preds', real_vectors')[1]
    /\ cur_idx' = reconstruct_predictions(preds', real_vectors')[2]
    /\ UNCHANGED <<ss_ref_str, ss_pred_str, shapes, segment_types, val_total, N_total,
                   result, converted, invocations, accumulators, training_vars>>

NextReconstruct == CallReconstructPredictions

SpecReconstruct == InitReconstruct /\ [][NextReconstruct]_vars

----------------------------------------------------------------------------
\* Training loop cell

\* Most batches in trainloader, largest validation loss (losses are drawn
\* from 1..MaxLoss; only their order is read), and most validation
\* checkpoints followed in one run.
MaxBatches == 6
MaxLoss == 3
MaxCheckpoints == 8

\* verbose_k = np.floor(len(trainloader)/prints_per_epoch)
verbose_k == len_trainloader \div prints_per_epoch

\* (i+1) % verbose_k == 0; the remainder by 0.0 is nan, which is not 0
at_checkpoint(i) == verbose_k # 0 /\ (i + 1) % verbose_k = 0

\* min(val_losses)
min(losses) == Min(Range(losses))

\* Variant: a loss equal to the lowest so far does not count as a new best.
is_new_best_strict(validation_loss, losses) ==
    \A x \in DOMAIN losses : x < Len(losses) => validation_loss < losses[x]

\* validation_loss <= min(val_losses), val_losses holding validation_loss
is_new_best(validation_loss, losses) == validation_loss <= min(losses)

InitTraining ==
    /\ ss_ref_str = <<>>
    /\ ss_pred_str = <<>>
    /\ NothingScored
    /\ NothingTrained
    /\ len_trainloader \in 0..MaxBatches

\* The epoch the outer for statement takes next.
next_epoch == IF train_pc = "start" THEN 0 ELSE epoch + 1

\* for epoch in range(10): running_loss = 0.0, and the first batch of
\* enumerate(trainloader) if there is one
NextEpoch ==
    /\ train_pc \in {"start", "epoch_end"}
    /\ next_epoch < epochs
    /\ epoch' = next_epoch
    /\ IF len_trainloader = 0
       THEN train_pc' = "epoch_end" /\ UNCHANGED batch_i
       ELSE train_pc' = "batch" /\ batch_i' = 0
    /\ UNCHANGED <<len_trainloader, patience_counter, best_loss, val_losses, iterations,
                   net_steps, checkpoint_file, breaks,
                   scoring_vars, reconstruct_vars>>

\* The inner for statement takes the next batch or is exhausted.
next_batch ==
    IF batch_i + 1 < len_trainloader
    THEN train_pc' = "batch" /\ batch_i' = batch_i + 1
    ELSE train_pc' = "epoch_end" /\ UNCHANGED batch_i

\* One pass of the inner loop that is not at a multiple of verbose_k:
\* optimizer.step() and running_loss only.
TrainStep ==
    /\ train_pc = "batch"
    /\ ~at_checkpoint(batch_i)
    /\ net_steps' = net_steps + 1
    /\ next_batch
    /\ UNCHANGED <<len_trainloader, epoch, patience_counter, best_loss, val_losses,
                   iterations, checkpoint_file, breaks,
                   scoring_vars, reconstruct_vars>>

\* One pass at a multiple of verbose_k with patience_counter < 1:
\* optimizer.step(), then break out of the inner loop.
TrainStepBreak ==
    /\ train_pc = "batch"
    /\ at_checkpoint(batch_i)
    /\ patience_counter < 1
    /\ net_steps' = net_steps + 1
    /\ breaks' = breaks + 1
    /\ train_pc' = "epoch_end"
    /\ UNCHANGED <<len_trainloader, epoch, batch_i, patience_counter, best_loss,
                   val_losses, iterations, checkpoint_file,
                   scoring_vars, reconstruct_vars>>

\* One pass at a multiple of verbose_k with patience left: optimizer.step(),
\* the validation loss, and the bookkeeping of the best loss.
TrainStepValidate ==
    /\ train_pc = "batch"
    /\ at_checkpoint(batch_i)
    /\ ~(patience_counter < 1)
    /\ Len(val_losses) < MaxCheckpoints
    /\ net_steps' = net_steps + 1
    /\ iterations' = Append(iterations, len_trainloader * epoch + batch_i)
    /\ \E validation_loss \in 1..MaxLoss :
          /\ val_losses' = Append(val_losses, validation_loss)
          /\ IF best_loss = None
             THEN /\ best_loss' = <<validation_loss>>
                  /\ UNCHANGED <<patience_counter, checkpoint_file>>
             ELSE IF is_new_best(validation_loss, val_losses')
                  THEN /\ patience_counter' = patience_val
                       /\ best_loss' = <<validation_loss>>
                       /\ checkpoint_file' = <<net_steps'>>
                  ELSE /\ patience_counter' = patience_counter - 1
                       /\ UNCHANGED <<best_loss, checkpoint_file>>
    /\ next_batch
    /\ UNCHANGED <<len_trainloader, epoch, breaks,
                   scoring_vars, reconstruct_vars>>

\* range(10) is exhausted: print('Finished Training')
FinishTraining ==
    /\ train_pc \in {"start", "epoch_end"}
    /\ ~(next_epoch < epochs)
    /\ train_pc' = "finished"
    /\ UNCHANGED <<len_trainloader, epoch, batch_i, patience_counter, best_loss,
                   val_losses, iterations, net_steps, checkpoint_file, breaks,
                   scoring_vars, reconstruct_vars>>

NextTraining ==
    \/ NextEpoch
    \/ TrainStep
    \/ TrainStepBreak
    \/ TrainStepValidate
    \/ FinishTraining

SpecTraining == InitTraining /\ [][NextTraining]_vars

----------------------------------------------------------------------------
\* Calls made one after another

\* Longest input sequence of a run of several calls.
MaxCallLen == 2

CallInputSeqs == UNION {[1..n -> Labels] : n \in 0..MaxCallLen}

InitCalls ==
    /\ ss_ref_str \in CallInputSeqs
    /\ ss_pred_str \in CallInputSeqs
    /\ NothingCalled

\* The call is over; the caller goes on to its next call, on the same pair
\* of sequences or on the pair exchanged.  What the last call left behind
\* stays in the state.
Return ==
    /\ pc = "done"
    /\ pc' = "ready"
    /\ \/ UNCHANGED <<ss_ref_str, ss_pred_str>>
       \/ /\ ss_ref_str' = ss_pred_str
          /\ ss_pred_str' = ss_ref_str
    /\ UNCHANGED <<op, shapes, segment_types, val_total, N_total, result, converted,
                   invocations, accumulators, reconstruct_vars, training_vars>>

NextCalls ==
    \/ CallGetSegments
    \/ CallSegmentOfOverlap
    \/ CallQ3Acc
    \/ Return

SpecCalls == InitCalls /\ [][NextCalls]_vars

----------------------------------------------------------------------------
\* Invocations of segment_of_overlap running side by side

\* Longest input sequence of the invocations that run side by side.
MaxConcurrentLen == 3

ConcurrentInputSeqs == UNION {[1..n -> Labels] : n \in 0..MaxConcurrentLen}

InitConcurrent ==
    /\ ss_ref_str \in ConcurrentInputSeqs
    /\ ss_pred_str \in ConcurrentInputSeqs
    /\ NothingCalled

\* Invocation 1 scores the pair as given, invocation 2 the pair exchanged.
ref_of(t) == IF t = 1 THEN ss_ref_str ELSE ss_pred_str
pred_of(t) == IF t = 1 THEN ss_pred_str ELSE ss_ref_str

\* Variant: val_total and N_total are module-level names shared by all.
accumulator_shared(t) == 1

\* val_total and N_total are local names of the invocation.
accumulator_of(t) == t

\* One pass of the body of "for k in ss_ref.keys()": the totals after key n.
key_step(ss_ref, ss_pred, n, val, N) ==
    LET k == segment_keys[n]
        sub == ref_loop(ss_ref[k], ss_pred[k], Zero, 0)
    IN <<float_add(val, sub[1]), N + sub[2]>>

\* ss_ref = ...; ss_pred = ...; val_total = 0; N_total = 0
Start(t) ==
    /\ invocations[t].pc = "start"
    /\ invocations' = [invocations EXCEPT ![t].pc = "loop", ![t].n = 1]
    /\ accumulators' = [accumulators EXCEPT ![accumulator_of(t)] =
                           <<initial_val_total(@[1]), initial_N_total(@[2])>>]
    /\ UNCHANGED <<ss_ref_str, ss_pred_str, pc, op, shapes, segment_types,
                   val_total, N_total, result, converted, reconstruct_vars, training_vars>>

\* for k in ss_ref.keys(): ... N_total += N_k; val_total += subsum_k
KeyStep(t) ==
    /\ invocations[t].pc = "loop"
    /\ invocations[t].n <= Len(segment_keys)
    /\ invocations' = [invocations EXCEPT ![t].n = @ + 1]
    /\ accumulators' = [accumulators EXCEPT ![accumulator_of(t)] =
                           key_step(get_segments(ref_of(t)), get_segments(pred_of(t)),
                                    invocations[t].n, @[1], @[2])]
    /\ UNCHANGED <<ss_ref_str, ss_pred_str, pc, op, shapes, segment_types,
                   val_total, N_total, result, converted, reconstruct_vars, training_vars>>

\* sov = val_total/N_total; return sov
Finish(t) ==
    /\ invocations[t].pc = "loop"
    /\ invocations[t].n > Len(segment_keys)
    /\ invocations' = [invocations EXCEPT
                          ![t].pc = "done",
                          ![t].result = sov_divide(accumulators[accumulator_of(t)][1],
                                                   accumulators[accumulator_of(t)][2])]
    /\ UNCHANGED <<ss_ref_str, ss_pred_str, pc, op, shapes, segment_types,
                   val_total, N_total, result, converted, accumulators, reconstruct_vars, training_vars>>

NextConcurrent ==
    \/ \E t \in Invocations : Start(t)
    \/ \E t \in Invocations : KeyStep(t)
    \/ \E t \in Invocations : Finish(t)

SpecConcurrent == InitConcurrent /\ [][NextConcurrent]_vars

----------------------------------------------------------------------------
\* Vocabulary of the properties

Done(o) == pc = "done" /\ op = o

HHHH == <<"H", "H", "H", "H">>
HHEE == <<"H", "H", "E", "E">>

EqualLength == Len(ss_ref_str) = Len(ss_pred_str)

NoPositionMatches ==
    \A x \in DOMAIN ss_ref_str \cap DOMAIN ss_pred_str : ss_ref_str[x] # ss_pred_str[x]

\* The places <<label, segment number, item number>> of a segment mapping
\* and the position stored at a place.
Slots(types) ==
    UNION {UNION {{<<k, n, x>> : x \in DOMAIN types[k][n][2]} : n \in DOMAIN types[k]}
           : k \in Labels}

PositionAt(types, t) == types[t[1]][t[2]][2][t[3]]

\* C1: after get_segments on a sequence of length N, every position 0..N-1
\* occurs in exactly one place of the pooled segments of the three labels,
\* and no other position occurs.
C1_Partition ==
    Done("get_segments") =>
        LET N == Len(ss_ref_str)
            S == Slots(segment_types)
        IN /\ \A p \in 0..(N - 1) :
                Cardinality({t \in S : PositionAt(segment_types, t) = p}) = 1
           /\ \A t \in S : PositionAt(segment_types, t) \in 0..(N - 1)

C1_Witness ==
    /\ Done("get_segments")
    /\ Len(ss_ref_str) >= 4
    /\ \E k \in Labels : Len(segment_types[k]) >= 2
    /\ \E k \in Labels : segment_types[k] = <<>>

\* C2: for non-empty inputs of equal length segment_of_overlap returns a
\* number in [0, 1], that is 0 <= val_total <= N_total.
C2_ScoreInUnitInterval ==
    (Done("segment_of_overlap") /\ EqualLength /\ ss_ref_str # <<>>) =>
        /\ result.kind = "value"
        /\ float_leq(Zero, result.val)
        /\ float_leq(result.val, One)
        /\ float_leq(Zero, val_total)
        /\ float_leq(val_total, true_divide(N_total, 1))

\* C3: segment_of_overlap(x, x) is exactly 1 for every non-empty x: each
\* reference segment overlaps only the identical predicted segment, delta
\* is 0 for that pair, and val_total equals N_total.
C3_Identity ==
    (Done("segment_of_overlap") /\ ss_ref_str = ss_pred_str /\ ss_ref_str # <<>>) =>
        /\ result = Value(One)
        /\ val_total = true_divide(N_total, 1)
        /\ LET ss_ref == get_segments(ss_ref_str)
               ss_pred == get_segments(ss_pred_str)
           IN \A k \in Labels : \A a \in DOMAIN ss_ref[k], b \in DOMAIN ss_pred[k] :
                LET i == ss_ref[k][a]
                    j == ss_pred[k][b]
                    minov == Cardinality(intersect1d(i[2], j[2]))
                    maxov == Cardinality(union1d(i[2], j[2]))
                IN minov > 0 =>
                     /\ i = j
                     /\ delta_of(maxov, minov, Len(i[2]), Len(j[2])) = 0

C3_Witness ==
    /\ Done("segment_of_overlap")
    /\ ss_ref_str = ss_pred_str
    /\ Len(ss_ref_str) >= 4
    /\ Len(groupby(ss_ref_str)) >= 3
    /\ result = Value(One)

\* The scoring rule as the specification words it, over sets of positions.

\* The maximal runs of s: label and set of 0-based positions.
RunsOf(s) ==
    {[label |-> s[a], P |-> (a - 1)..(b - 1)] :
        <<a, b>> \in {w \in (DOMAIN s) \X (DOMAIN s) :
                        /\ w[1] <= w[2]
                        /\ \A x \in w[1]..w[2] : s[x] = s[w[1]]
                        /\ (w[1] = 1 \/ s[w[1] - 1] # s[w[1]])
                        /\ (w[2] = Len(s) \/ s[w[2] + 1] # s[w[1]])}}

HalfFloor(l) == CHOOSE q \in 0..l : 2 * q <= l /\ l < 2 * q + 2

Least(a, b) == IF a <= b THEN a ELSE b

\* Exact fractions <<numerator, denominator>> in lowest terms, for the
\* values the scoring rule has in real arithmetic.
RECURSIVE GCD(_, _)
GCD(a, b) == IF b = 0 THEN a ELSE GCD(b, a % b)

Frac(n, d) == LET g == GCD(n, d) IN <<n \div g, d \div g>>

FracAdd(a, b) == Frac(a[1] * b[2] + b[1] * a[2], a[2] * b[2])

\* The float x is within 2^-48 of the fraction q.
Near(x, q) ==
    LET y == true_divide(q[1], q[2])
        tolerance == <<0, 0, 0, 2 ^ 12>>
    IN /\ float_leq(x, raw_add(y, tolerance))
       /\ float_leq(y, raw_add(x, tolerance))

\* l1 * (overlap + delta) / union for a pair of runs
PairValue(s1, s2) ==
    LET l1 == Cardinality(s1.P)
        l2 == Cardinality(s2.P)
        overlap == Cardinality(s1.P \cap s2.P)
        union == Cardinality(s1.P \cup s2.P)
        delta == Least(Least(union - overlap, overlap), Least(HalfFloor(l1), HalfFloor(l2)))
    IN Frac(l1 * (overlap + delta), union)

OverlappingPairs(ref, pred) ==
    {w \in RunsOf(ref) \X RunsOf(pred) :
        w[1].label = w[2].label /\ w[1].P \cap w[2].P # {}}

RECURSIVE SumPairValues(_)
SumPairValues(W) ==
    IF W = {} THEN Frac(0, 1)
    ELSE LET w == CHOOSE v \in W : TRUE
         IN FracAdd(PairValue(w[1], w[2]), SumPairValues(W \ {w}))

RECURSIVE SumRunLengths(_)
SumRunLengths(R) ==
    IF R = {} THEN 0
    ELSE LET r == CHOOSE v \in R : TRUE
         IN Cardinality(r.P) + SumRunLengths(R \ {r})

\* C4: for non-empty inputs of equal length the returned score is
\* val_total / N_total, where N_total is the sum of the lengths of the
\* reference runs and val_total is the sum of l1 * (overlap + delta) / union
\* over the overlapping same-label pairs of runs, all classes pooled; the
\* sum and the quotient are those of binary64 arithmetic, within 2^-48 of
\* the exact ones.
C4_Formula ==
    (Done("segment_of_overlap") /\ EqualLength /\ ss_ref_str # <<>>) =>
        LET V == SumPairValues(OverlappingPairs(ss_ref_str, ss_pred_str))
            N == SumRunLengths(RunsOf(ss_ref_str))
        IN /\ N_total = N
           /\ Near(val_total, V)
           /\ result = Value(float_divide(val_total, N_total))
           /\ Near(result.val, Frac(V[1], V[2] * N))

C4_Witness ==
    /\ Done("segment_of_overlap")
    /\ EqualLength
    /\ Cardinality(OverlappingPairs(ss_ref_str, ss_pred_str)) >= 3
    /\ \E w \in OverlappingPairs(ss_ref_str, ss_pred_str) :
          /\ w[1].P # w[2].P
          /\ PairValue(w[1], w[2])[2] # 1
    /\ result.kind = "value"
    /\ result.val # One

\* C5: for reference HHHH and prediction HHEE, q3_acc is 1/2 and
\* segment_of_overlap is 3/4, from the single H pair with l1 = 4, l2 = 2,
\* overlap 2, union 4, delta 1, value 3, and N_total = 4.
C5_Scenario2 ==
    (pc = "done" /\ ss_ref_str = HHHH /\ ss_pred_str = HHEE) =>
        /\ op = "q3_acc" => result = Value(true_divide(1, 2))
        /\ op = "segment_of_overlap" =>
             LET ss_ref == get_segments(ss_ref_str)
                 ss_pred == get_segments(ss_pred_str)
                 i == ss_ref["H"][1]
                 j == ss_pred["H"][1]
                 minov == Cardinality(intersect1d(i[2], j[2]))
                 maxov == Cardinality(union1d(i[2], j[2]))
                 delta == delta_of(maxov, minov, Len(i[2]), Len(j[2]))
             IN /\ Len(ss_ref["H"]) = 1 /\ Len(ss_pred["H"]) = 1
                /\ Len(i[2]) = 4 /\ Len(j[2]) = 2
                /\ minov = 2 /\ maxov = 4 /\ delta = 1
                /\ value_of(Len(i[2]), minov, delta, maxov) = true_divide(3, 1)
                /\ val_total = true_divide(3, 1)
                /\ N_total = 4
                /\ result = Value(true_divide(3, 4))

C5_Witness ==
    /\ Done("segment_of_overlap")
    /\ ss_ref_str = HHHH
    /\ ss_pred_str = HHEE
    /\ result = Value(true_divide(3, 4))

\* C6: for non-empty inputs of equal length with no position carrying the
\* same label in both, segment_of_overlap returns 0 (val_total = 0,
\* N_total = length of the reference) and q3_acc returns 0.
C6_Disjoint ==
    (pc = "done" /\ EqualLength /\ ss_ref_str # <<>> /\ NoPositionMatches) =>
        /\ op = "segment_of_overlap" =>
             /\ result = Value(Zero)
             /\ val_total = Zero
             /\ N_total = Len(ss_ref_str)
        /\ op = "q3_acc" => result = Value(Zero)

\* C7: segment_of_overlap is not symmetric: for a = HHHH and b = HHEE the
\* score of (a, b) is 3/4 and the score of (b, a) is 3/8.
C7_NotSymmetric ==
    /\ (Done("segment_of_overlap") /\ ss_ref_str = HHHH /\ ss_pred_str = HHEE) =>
          /\ result = Value(true_divide(3, 4))
          /\ result # segment_of_overlap(ss_pred_str, ss_ref_str)
    /\ (Done("segment_of_overlap") /\ ss_ref_str = HHEE /\ ss_pred_str = HHHH) =>
          /\ result = Value(true_divide(3, 8))
          /\ result # segment_of_overlap(ss_pred_str, ss_ref_str)

C7_Witness ==
    /\ Done("segment_of_overlap")
    /\ ss_ref_str = HHEE
    /\ ss_pred_str = HHHH
    /\ result = Value(true_divide(3, 8))

\* C8: when reference and prediction differ in length, segment_of_overlap
\* and q3_acc both signal LengthMismatch and return no score.
C8_LengthMismatch ==
    (pc = "done" /\ op \in {"segment_of_overlap", "q3_acc"} /\ ~EqualLength) =>
        result.kind = "LengthMismatch"

\* C9: with reference and prediction both of length 0, segment_of_overlap
\* signals EmptySequence: it returns no NaN and raises no arithmetic error.
C9_EmptySequence ==
    (Done("segment_of_overlap") /\ ss_ref_str = <<>> /\ ss_pred_str = <<>>) =>
        result.kind = "EmptySequence"

\* C10: q3_acc on empty reference and prediction is rejected with an error
\* and returns no number, in particular not NaN.
C10_Q3EmptyRejected ==
    (Done("q3_acc") /\ ss_ref_str = <<>> /\ ss_pred_str = <<>>) =>
        result.kind \notin {"value", "nan", "none"}

HasUnknown(s) == \E x \in DOMAIN s : s[x] \notin Labels

\* C11: when a sequence holds a label outside {H, E, -}, get_segments
\* raises KeyError and nothing is returned; segment_of_overlap returns no
\* score, whether the unknown label is in the reference or the prediction.
C11_UnknownLabel ==
    /\ (Done("get_segments") /\ HasUnknown(ss_ref_str)) =>
          /\ result = Raise("KeyError")
          /\ segment_types = NoSegments
    /\ (Done("segment_of_overlap") /\ (HasUnknown(ss_ref_str) \/ HasUnknown(ss_pred_str))) =>
          /\ result = Raise("KeyError")
          /\ val_total = Zero
          /\ N_total = 0

C11_Witness ==
    /\ Done("segment_of_overlap")
    /\ ~HasUnknown(ss_ref_str)
    /\ HasUnknown(ss_pred_str)
    /\ Len(ss_ref_str) = 3
    /\ Len(ss_pred_str) = 3
    /\ result = Raise("KeyError")

Matches == Cardinality({x \in DOMAIN ss_ref_str : ss_ref_str[x] = ss_pred_str[x]})

\* C12: for non-empty flat sequences of equal length q3_acc returns the
\* number of positions with equal labels divided by the length, a value in
\* [0, 1].
C12_Q3Fraction ==
    (Done("q3_acc") /\ shapes = <<FALSE, FALSE>> /\ EqualLength /\ ss_ref_str # <<>>) =>
        /\ result = Value(true_divide(Matches, Len(ss_ref_str)))
        /\ float_leq(Zero, result.val)
        /\ float_leq(result.val, One)

\* C13: for non-empty sequences of equal length q3_acc is 1 exactly when
\* the sequences are identical and 0 exactly when no position matches.
C13_Q3Extremes ==
    (Done("q3_acc") /\ EqualLength /\ ss_ref_str # <<>>) =>
        /\ result = Value(One) <=> ss_ref_str = ss_pred_str
        /\ result = Value(Zero) <=> NoPositionMatches

\* C14: for every length N >= 1 and inputs of equal length q3_acc returns
\* the same value in all four flat/wrapped combinations of its arguments.
C14_Q3ShapeIndependent ==
    (Done("q3_acc") /\ EqualLength /\ Len(ss_ref_str) >= 1) =>
        /\ result.kind = "value"
        /\ \A rw \in BOOLEAN, pw \in BOOLEAN :
              q3_acc(as_array(ss_ref_str, rw), as_array(ss_pred_str, pw)) = {result}

\* C15 as stated: segment_of_overlap on the integer codes gives the score
\* it gives on the symbols.
C15_CodesAccepted ==
    (Done("segment_of_overlap_codes") /\ EqualLength /\ ss_ref_str # <<>>) =>
        /\ result.kind = "value"
        /\ result = segment_of_overlap(ss_ref_str, ss_pred_str)

\* C15 as amended: get_segments takes symbols only, so on integer codes
\* segment_of_overlap raises TypeError (for two empty sequences it divides
\* by zero as it does on symbols); once the codes are converted with
\* ints_to_symbols1d the score is the score of the symbols.
C15_CodesConverted ==
    /\ Done("segment_of_overlap_codes") =>
          result = IF ss_ref_str = <<>> /\ ss_pred_str = <<>>
                   THEN Raise("ZeroDivisionError")
                   ELSE Raise("TypeError")
    /\ Done("segment_of_overlap_converted") =>
          /\ result = segment_of_overlap(ss_ref_str, ss_pred_str)
          /\ <<val_total, N_total>> = sov_totals(ss_ref_str, ss_pred_str)

C15_Witness ==
    /\ Done("segment_of_overlap_converted")
    /\ EqualLength
    /\ Len(ss_ref_str) >= 4
    /\ Range(ss_ref_str) \cup Range(ss_pred_str) = Labels
    /\ result.kind = "value"
    /\ result.val \notin {Zero, One}

\* C16: the mapping is H=0, E=1, -=2 and pos_ss_dict is its inverse; a
\* symbol sequence converted to codes and back is unchanged, and a flat
\* code sequence converted to symbols and back is unchanged.
C16_RoundTrip ==
    /\ ss_id_dict["H"] = 0 /\ ss_id_dict["E"] = 1 /\ ss_id_dict["-"] = 2
    /\ DOMAIN pos_ss_dict = {0, 1, 2}
    /\ \A l \in Labels : pos_ss_dict[ss_id_dict[l]] = l
    /\ Done("symbols_roundtrip") =>
          /\ converted[1].kind = "value"
          /\ converted[1].type = "int"
          /\ Len(converted[1].items) = Len(ss_ref_str)
          /\ \A x \in DOMAIN ss_ref_str : converted[1].items[x] \in {0, 1, 2}
          /\ converted[2] = Converted("str", ss_ref_str)
    /\ (Done("codes_roundtrip") /\ ~shapes[2]) =>
          /\ converted[1].kind = "value"
          /\ converted[1].type = "str"
          /\ \A x \in DOMAIN converted[1].items : converted[1].items[x] \in Labels
          /\ converted[2] = Converted("int", codes_input(ss_pred_str))

C16_Witness ==
    /\ Done("symbols_roundtrip")
    /\ Len(ss_ref_str) >= 3
    /\ Range(ss_ref_str) = Labels
    /\ converted[2] = Converted("str", ss_ref_str)

\* C17: for the empty sequence get_segments returns a mapping in which the
\* three groups H, E and - are all present and each is an empty list.
C17_EmptyGroups ==
    (Done("get_segments") /\ ss_ref_str = <<>>) =>
        /\ result = Returned
        /\ DOMAIN segment_types = {"H", "E", "-"}
        /\ \A k \in DOMAIN segment_types : segment_types[k] = <<>>

C17_Witness ==
    /\ Done("get_segments")
    /\ ss_ref_str = <<>>
    /\ result = Returned

\* What a call of the operation o returns on the current pair of sequences
\* when nothing was called before it.
FreshOutcome(o, sh, res, types, val, N) ==
    /\ o = "get_segments" =>
          /\ res = Returned
          /\ types = get_segments(ss_ref_str)
    /\ o = "segment_of_overlap" =>
          /\ res = segment_of_overlap(ss_ref_str, ss_pred_str)
          /\ <<val, N>> = sov_totals(ss_ref_str, ss_pred_str)
    /\ o = "q3_acc" =>
          res \in q3_acc(as_array(ss_ref_str, sh[1]), as_array(ss_pred_str, sh[2]))

\* C18: in any sequence of calls, a call of get_segments, segment_of_overlap
\* or q3_acc leaves its input sequences unchanged and returns what it
\* returns on these inputs when called first, whatever was called before.
C18_Stateless ==
    [][(pc = "ready" /\ pc' = "done") =>
          /\ ss_ref_str' = ss_ref_str
          /\ ss_pred_str' = ss_pred_str
          /\ FreshOutcome(op', shapes', result', segment_types', val_total', N_total')]_vars

C18_Witness ==
    /\ Done("segment_of_overlap")
    /\ segment_types # NoSegments
    /\ shapes = <<TRUE, TRUE>>
    /\ result.kind = "value"
    /\ result.val # Zero

\* C19: when two invocations of segment_of_overlap run with their steps
\* interleaved in any order, each returns the score it returns when run
\* alone.
C19_Interleaved ==
    \A t \in Invocations :
        invocations[t].pc = "done" =>
            invocations[t].result = segment_of_overlap(ref_of(t), pred_of(t))

C19_Witness ==
    /\ \A t \in Invocations : invocations[t].pc = "done"
    /\ \A t \in Invocations : invocations[t].result.kind = "value"
    /\ invocations[1].result # invocations[2].result
    /\ invocations[1].result.val # Zero
    /\ invocations[2].result.val # Zero

\* The pairs <<reference segment, predicted segment>> of one class that
\* share a position, as segment_of_overlap meets them on the current inputs.
MatchedPairs ==
    LET ss_ref == get_segments(ss_ref_str)
        ss_pred == get_segments(ss_pred_str)
    IN UNION {{<<ss_ref[k][a], ss_pred[k][b]>> :
                  <<a, b>> \in {w \in (DOMAIN ss_ref[k]) \X (DOMAIN ss_pred[k]) :
                                  intersect1d(ss_ref[k][w[1]][2], ss_pred[k][w[2]][2]) # {}}}
              : k \in Labels}

PairOverlap(w) == Cardinality(intersect1d(w[1][2], w[2][2]))
PairUnion(w) == Cardinality(union1d(w[1][2], w[2][2]))
PairDelta(w) == delta_of(PairUnion(w), PairOverlap(w), Len(w[1][2]), Len(w[2][2]))

\* C20 as stated: for every matched pair, overlap + delta <= l1.
C20_WithinReference ==
    (Done("segment_of_overlap") /\ EqualLength) =>
        \A w \in MatchedPairs : PairOverlap(w) + PairDelta(w) <= Len(w[1][2])

\* C20 as amended: for every matched pair, overlap + delta <= union; the
\* sum exceeds l1 when the predicted segment is longer than the reference
\* segment and contains it.
C20_WithinUnion ==
    (Done("segment_of_overlap") /\ EqualLength) =>
        \A w \in MatchedPairs : PairOverlap(w) + PairDelta(w) <= PairUnion(w)

C20_Witness ==
    /\ Done("segment_of_overlap")
    /\ EqualLength
    /\ \E w \in MatchedPairs :
          /\ Len(w[2][2]) > Len(w[1][2])
          /\ PairOverlap(w) = Len(w[1][2])
          /\ PairDelta(w) >= 1
          /\ PairOverlap(w) + PairDelta(w) > Len(w[1][2])
          /\ PairOverlap(w) + PairDelta(w) <= PairUnion(w)

PairContribution(w) ==
    value_of(Len(w[1][2]), PairOverlap(w), PairDelta(w), PairUnion(w))

\* C21: for every reference segment and predicted segment of one class that
\* overlap, the contributed value l1*(overlap+delta)/union is greater than 0
\* and at most l1.
C21_PairValueBounded ==
    Done("segment_of_overlap") =>
        \A w \in MatchedPairs :
            /\ PairContribution(w) # Zero
            /\ float_leq(Zero, PairContribution(w))
            /\ float_leq(PairContribution(w), true_divide(Len(w[1][2]), 1))

\* A pair of different segments that contributes exactly l1, beside a pair
\* that contributes less.
C21_Witness ==
    /\ Done("segment_of_overlap")
    /\ \E w \in MatchedPairs :
          /\ w[1][2] # w[2][2]
          /\ PairContribution(w) = true_divide(Len(w[1][2]), 1)
    /\ \E w \in MatchedPairs :
          /\ PairContribution(w) # true_divide(Len(w[1][2]), 1)
          /\ PairDelta(w) >= 1

\* 1-based index into the sequence of the 0-based position p.
LabelAt(s, p) == s[p + 1]

\* C22: every segment returned by get_segments is a maximal run: its
\* positions carry its label, they are a contiguous ascending range as long
\* as the segment, the positions just before and just after it carry another
\* label, and two segments of one class are never adjacent.
C22_MaximalRuns ==
    Done("get_segments") =>
        \A k \in Labels : \A n \in DOMAIN segment_types[k] :
            LET run == segment_types[k][n][1]
                idx == segment_types[k][n][2]
                first == idx[1]
                last == idx[Len(idx)]
            IN /\ Len(run) >= 1
               /\ Len(idx) = Len(run)
               /\ \A x \in DOMAIN run : run[x] = k
               /\ \A x \in DOMAIN idx :
                     /\ idx[x] = first + x - 1
                     /\ idx[x] \in 0..(Len(ss_ref_str) - 1)
                     /\ LabelAt(ss_ref_str, idx[x]) = k
               /\ first > 0 => LabelAt(ss_ref_str, first - 1) # k
               /\ last < Len(ss_ref_str) - 1 => LabelAt(ss_ref_str, last + 1) # k
               /\ \A m \in DOMAIN segment_types[k] :
                     m > n => segment_types[k][m][2][1] > last + 1

C22_Witness ==
    /\ Done("get_segments")
    /\ \E k \in Labels : \E n \in DOMAIN segment_types[k] :
          /\ n + 1 \in DOMAIN segment_types[k]
          /\ Len(segment_types[k][n][2]) >= 2
          /\ segment_types[k][n + 1][2][1] = segment_types[k][n][2][Len(segment_types[k][n][2])] + 2
    /\ \E k \in Labels : \E n \in DOMAIN segment_types[k] :
          /\ segment_types[k][n][2][1] > 0
          /\ segment_types[k][n][2][Len(segment_types[k][n][2])] < Len(ss_ref_str) - 1

\* C23: for a non-empty reference the denominator N_total of
\* segment_of_overlap is the length of the reference, whatever the
\* prediction is.
C23_DenominatorIsLength ==
    (Done("segment_of_overlap") /\ ss_ref_str # <<>>) =>
        N_total = Len(ss_ref_str)

\* Reference segments that meet no, one and several predicted segments.
OverlapCount(k, n) ==
    Cardinality({b \in DOMAIN get_segments(ss_pred_str)[k] :
                    intersect1d(get_segments(ss_ref_str)[k][n][2],
                                get_segments(ss_pred_str)[k][b][2]) # {}})

C23_Witness ==
    /\ Done("segment_of_overlap")
    /\ N_total = Len(ss_ref_str)
    /\ Len(ss_ref_str) # Len(ss_pred_str)
    /\ \E k \in Labels : \E n \in DOMAIN get_segments(ss_ref_str)[k] :
          OverlapCount(k, n) = 0
    /\ \E k \in Labels : \E n \in DOMAIN get_segments(ss_ref_str)[k] :
          OverlapCount(k, n) >= 2

\* C24: for non-empty sequences of equal length segment_of_overlap is
\* greater than 0 exactly when some position carries the same label in both
\* sequences, and it is 0 exactly when q3_acc is 0.
C24_ZeroIffQ3Zero ==
    (Done("segment_of_overlap") /\ EqualLength /\ ss_ref_str # <<>>) =>
        /\ result.kind = "value"
        /\ float_leq(Zero, result.val)
        /\ result.val # Zero <=> ~NoPositionMatches
        /\ result = Value(Zero) <=>
              q3_acc(as_array(ss_ref_str, FALSE), as_array(ss_pred_str, FALSE))
                  = {Value(Zero)}

\* C25: in the test-set evaluation cells each SOV value is the score of
\* segment_of_overlap with the DSSP sequence as the reference (first
\* argument) and the predicted sequence as the prediction (second argument).
C25_TruthIsReference ==
    (Done("test_sovs") /\ EqualLength /\ ss_ref_str # <<>>) =>
        /\ result = segment_of_overlap(ss_ref_str, ss_pred_str)
        /\ <<val_total, N_total>> = sov_totals(ss_ref_str, ss_pred_str)

RECURSIVE SumOfLengths(_)
SumOfLengths(vectors) ==
    IF vectors = <<>> THEN 0 ELSE Len(Head(vectors)) + SumOfLengths(Tail(vectors))

RECURSIVE Concatenation(_)
Concatenation(chunks) ==
    IF chunks = <<>> THEN <<>> ELSE Head(chunks) \o Concatenation(Tail(chunks))

\* C26: when the lengths of the real vectors sum to len(preds),
\* reconstruct_predictions returns one chunk per real vector, in order,
\* chunk i as long as real vector i, and the chunks concatenated are preds.
C26_Reconstruction ==
    (Done("reconstruct_predictions") /\ SumOfLengths(real_vectors) = Len(preds)) =>
        /\ Len(preds_rec) = Len(real_vectors)
        /\ \A n \in DOMAIN preds_rec : Len(preds_rec[n]) = Len(real_vectors[n])
        /\ Concatenation(preds_rec) = preds
        /\ cur_idx = Len(preds)

C26_Witness ==
    /\ Done("reconstruct_predictions")
    /\ SumOfLengths(real_vectors) = Len(preds)
    /\ Len(real_vectors) = 3
    /\ Len(real_vectors[1]) = 1
    /\ Len(real_vectors[2]) = 2
    /\ preds = <<0, 1, 2, 0>>
    /\ preds_rec = <<(<<0>>), (<<1, 2>>), (<<0>>)>>

\* C27: once the early-stopping condition has fired (the break statement
\* was executed), no further optimizer.step() is executed and no later
\* epoch runs a training iteration.
C27_StopsTraining ==
    [][breaks >= 1 => (net_steps' = net_steps /\ train_pc' # "batch")]_vars

\* C28: when the loop has ended after at least one validation checkpoint,
\* the checkpoint file holds the parameters of a checkpoint whose validation
\* loss is min(val_losses).
C28_SavedIsBest ==
    (train_pc = "finished" /\ val_losses # <<>>) =>
        /\ checkpoint_file # None
        /\ \E n \in DOMAIN val_losses :
              /\ val_losses[n] = min(val_losses)
              /\ checkpoint_file = <<iterations[n] + 1>>

\* C29: after every validation checkpoint best_loss is the minimum of the
\* validation losses recorded so far, a loss equal to the previous minimum
\* counts as a new best and sets patience_counter to patience_val, and
\* patience_counter stays within 0..patience_val.
C29_BestLossIsMinimum ==
    /\ patience_counter \in 0..patience_val
    /\ val_losses = <<>> => best_loss = None
    /\ val_losses # <<>> => best_loss = <<min(val_losses)>>
    /\ Len(iterations) = Len(val_losses)
    /\ (Len(val_losses) >= 2 /\ val_losses[Len(val_losses)] = min(val_losses)) =>
          patience_counter = patience_val

C29_Witness ==
    /\ Len(val_losses) >= 4
    /\ val_losses[1] = 2
    /\ val_losses[2] = 1
    /\ val_losses[3] = 2
    /\ val_losses[Len(val_losses)] = 1
    /\ best_loss = <<1>>
    /\ patience_counter = patience_val

====
